---- MODULE Spec2Model ----
(***************************************************************************)
(* The two streaming parsers of lib-msn-messenger:                         *)
(*   MessengerPlusParser (Format A, src/messenger/messenger_plus_parser.rs)*)
(*   XmlParser           (Format B, src/messenger/xml_parser.rs)           *)
(* Each next() call is a loop over the events of an xml-rs EventReader.    *)
(* One step of the model is one iteration of that loop: the reader hands   *)
(* out one event and the matching arm of the `match` handles it.           *)
(*                                                                         *)
(* Strings are sequences of tokens (a token is a character or an atomic    *)
(* piece of text such as "19:30"); the empty string is << >>.              *)
(***************************************************************************)
EXTENDS Integers, Sequences, FiniteSets, TLC

VARIABLES
    fmt,        \* which parser this behaviour runs: "A" or "B"
    reader,     \* the EventReader: what it has delivered so far
    plus,       \* MessengerPlusParser's fields
    xml,        \* XmlParser's fields
    message,    \* the local `message` of the running next() call
    pc,         \* "idle": between calls; "loop": inside the loop of next()
    ret,        \* what the last next() call returned
    obs,        \* history of the run (what the input held, what was returned)
    plus2,      \* second MessengerPlusParser, used by the two-archive comparison
    message2,   \* its local `message`
    ret2        \* what its last next() call returned

vars == <<fmt, reader, plus, xml, message, pc, ret, obs, plus2, message2, ret2>>

----------------------------------------------------------------------------
(* Bounds of the model                                                     *)

\* tr elements (Format A) / Message elements (Format B) in one archive
MaxRows == 2
\* payload entries one record can collect
MaxData == 2
\* div elements directly under body (Format A)
MaxSessions == 2
\* elements whose name holds a dot (Format A)
MaxDotted == 1
MaxCData == 1

----------------------------------------------------------------------------
(* Strings                                                                 *)

\* the value of an attribute that is not in the attribute list
NoAttr == <<"#absent">>

RECURSIVE trim_start(_)
trim_start(s) ==
    IF s # <<>> /\ Head(s) = " " THEN trim_start(Tail(s)) ELSE s

RECURSIVE trim_end(_)
trim_end(s) ==
    IF s # <<>> /\ s[Len(s)] = " " THEN trim_end(SubSeq(s, 1, Len(s) - 1)) ELSE s

\* str::trim
trim(s) == trim_end(trim_start(s))

\* html_escape::decode_html_entities: an entity reference is one token
decode_html_entities(s) ==
    [i \in 1..Len(s) |-> IF s[i] = "&quot;" THEN "\"" ELSE s[i]]

\* data.matches(pat).count() > 0: pat occurs in data (the empty pattern always does)
matches(data, pat) ==
    \E i \in 0..(Len(data) - Len(pat)) : SubSeq(data, i + 1, i + Len(pat)) = pat

\* parents.0.ends_with(suffix), on the segments of the dot-joined path
ends_with(path, suffix) ==
    /\ Len(path) >= Len(suffix)
    /\ SubSeq(path, Len(path) - Len(suffix) + 1, Len(path)) = suffix

\* the segments format!("{}.{}", path, name) appends for an element name:
\* the pieces of the name between its dots
Segments(name) == IF name = "v.x" THEN <<"v", "x">> ELSE <<name>>

----------------------------------------------------------------------------
(* Values of the input alphabet                                            *)

Session1 == <<"Session_", "2009-08-05", "T", "19-30-", "21">>
Session2 == <<"Session_", "2009-08-06", "T", "08-15-", "07">>
JunkId   == <<"Session?">>

\* the seconds a "%S" field holds
SecondOf == ("21" :> 21) @@ ("07" :> 7) @@ ("00" :> 0)

\* "%S" on output: two digits
Pad2(n) == CHOOSE t \in DOMAIN SecondOf : SecondOf[t] = n

Time1    == <<"(", "19:31", ")">>
JunkTime == <<"(", "19h31", ")">>

StyleAttr == <<" ", "font:", "&quot;", "A", "&quot;">>


----------------------------------------------------------------------------
(* Data types (crate::messenger)                                           *)

\* Option::None / Option::Some(v)
None == [some |-> FALSE]
Some(v) == [some |-> TRUE, val |-> v]

\* Message::default()
DefaultMessage ==
    [ datetime |-> <<>>,
      timezone_offset |-> None,
      session_id |-> <<>>,
      sender_friendly_name |-> <<>>,
      receiver_friendly_name |-> <<>>,
      data |-> <<>> ]

\* Data::Text(Text { style, content })
Text(style, content) == [kind |-> "Text", style |-> style, content |-> content]
\* Data::Image(Image { src, alt, content })
Image(src, alt, content) == [kind |-> "Image", src |-> src, alt |-> alt, content |-> content]
\* Data::System(text)
System(text) == [kind |-> "System", text |-> text]

\* Vec::swap_remove(0): the last element takes the place of the first
swap_remove0(v) ==
    IF Len(v) = 1 THEN <<>>
    ELSE <<v[Len(v)]>> \o SubSeq(v, 2, Len(v) - 1)

----------------------------------------------------------------------------
(* Format A: MessengerPlusParser                                           *)

\* the attribute list of a Format A element without attributes
NoAttrsA ==
    [class |-> "", id |-> NoAttr, style |-> NoAttr, src |-> NoAttr, alt |-> NoAttr]

\* NaiveDateTime::default()
DefaultDate == [day |-> "1970-01-01", second |-> 0]

\* MessengerPlusParser::new
MsgPlus_new ==
    [ details |-> [ recipient_id |-> <<"alice@example.com">>,
                    file_type |-> "MessengerPlus",
                    first_session_id |-> <<>>,
                    last_session_id |-> <<>> ],
      parents |-> << <<>>, NoAttrsA >>,
      session |-> [ date |-> DefaultDate,
                    id |-> <<>>,
                    owner |-> <<>>,
                    recipient |-> <<>>,
                    message_style |-> <<>> ],
      first_message |-> TRUE ]

\* NaiveDateTime::parse_from_str(id, "Session_%Y-%m-%dT%H-%M-%S")
parse_session_date(id) ==
    IF /\ Len(id) = 5
       /\ id[1] = "Session_"
       /\ id[3] = "T"
       /\ id[5] \in DOMAIN SecondOf
    THEN [ok |-> TRUE, val |-> [day |-> id[2], second |-> SecondOf[id[5]]]]
    ELSE [ok |-> FALSE]

\* NaiveTime::parse_from_str(data, "(%H:%M)"): the hour:minute token, if any
parse_header_time(data) ==
    IF /\ Len(data) = 3
       /\ data[1] = "("
       /\ data[3] = ")"
       /\ data[2] \in {"19:30", "19:31"}
    THEN [ok |-> TRUE, val |-> data[2]]
    ELSE [ok |-> FALSE]

RowParent == <<"html", "body", "div", "table", "tbody">>
RowPath   == <<"html", "body", "div", "table", "tbody", "tr">>

\* what parse_node and parse_text hand back: Err(..) or Ok(()) and the
\* fields and the message as they left them
Result(err, self, msg) == [err |-> err, self |-> self, message |-> msg]

\* parse_node, arm "div"
MsgPlus_parse_node_div(self, attributes, msg) ==
    IF /\ ends_with(self.parents[1], <<"html", "body">>)
       /\ attributes.class = "mplsession"
       /\ attributes.id # NoAttr
    THEN LET s1 == [self EXCEPT !.session.id = attributes.id]
             d  == parse_session_date(attributes.id)
         IN  IF ~d.ok
             THEN Result(TRUE, s1, msg)
             ELSE Result(FALSE,
                         [s1 EXCEPT !.session.date = d.val,
                                    !.details.first_session_id =
                                        IF @ = <<>> THEN attributes.id ELSE @],
                         msg)
    ELSE Result(FALSE, self, msg)

\* parse_node, arm "td"
MsgPlus_parse_node_td(self, attributes, msg) ==
    IF /\ ends_with(self.parents[1], RowPath)
       /\ attributes.style # NoAttr
    THEN Result(FALSE,
                [self EXCEPT !.session.message_style =
                                 trim(decode_html_entities(attributes.style))],
                msg)
    ELSE Result(FALSE, self, msg)

\* parse_node, arm "tr"
MsgPlus_parse_node_tr(self, attributes, msg) ==
    IF ends_with(self.parents[1], RowParent)
    THEN LET m1 == [msg EXCEPT !.session_id = self.session.id]
         IN  Result(FALSE, self,
                    IF attributes.class = "msgplus"
                    THEN [m1 EXCEPT !.data = <<System(<<>>)>>]
                    ELSE m1)
    ELSE Result(FALSE, self, msg)

\* parse_node, arm "img"; fileOk: whether the image file can be opened and read
MsgPlus_parse_node_img(self, attributes, msg, fileOk) ==
    IF /\ ends_with(self.parents[1], RowPath \o <<"td">>)
       /\ attributes.src # NoAttr
    THEN IF ~fileOk
         THEN Result(TRUE, self, msg)
         ELSE Result(FALSE, self,
                     [msg EXCEPT !.data =
                         Append(@, Image(trim(attributes.src),
                                         IF attributes.alt # NoAttr
                                         THEN trim(attributes.alt) ELSE <<>>,
                                         <<"bytes of ">> \o attributes.src))])
    ELSE Result(FALSE, self, msg)

\* MessengerPlusParser::parse_node
MsgPlus_parse_node(self, name, attributes, msg, fileOk) ==
    CASE name = "div" -> MsgPlus_parse_node_div(self, attributes, msg)
      [] name = "td"  -> MsgPlus_parse_node_td(self, attributes, msg)
      [] name = "tr"  -> MsgPlus_parse_node_tr(self, attributes, msg)
      [] name = "img" -> MsgPlus_parse_node_img(self, attributes, msg, fileOk)
      [] OTHER        -> Result(FALSE, self, msg)

\* parse_text, arm ".html.body.div.ul.li"
MsgPlus_parse_text_li(self, data, msg) ==
    IF self.parents[2].class = "in"
    THEN Result(FALSE, [self EXCEPT !.session.owner = trim(data)], msg)
    ELSE Result(FALSE, [self EXCEPT !.session.recipient = trim(data)], msg)

\* parse_text, arm ".html.body.div.table.tbody.tr.th.span"
MsgPlus_parse_text_span(self, data, msg) ==
    LET t == parse_header_time(data)
    IN  IF ~t.ok
        THEN Result(TRUE, self, msg)
        ELSE IF self.first_message
             THEN Result(FALSE,
                         [self EXCEPT !.first_message = FALSE],
                         [msg EXCEPT !.datetime =
                             <<self.session.date.day, "T", t.val, ":",
                               Pad2(self.session.date.second)>>])
             ELSE Result(FALSE, self,
                         [msg EXCEPT !.datetime =
                             <<self.session.date.day, "T", t.val>>])

\* a header-cell arm that ignores the header text: the sender is always
\* the owner, the receiver always the counterpart
MsgPlus_parse_text_th_owner(self, data, msg) ==
    Result(FALSE, self,
           [msg EXCEPT !.sender_friendly_name = self.session.owner,
                       !.receiver_friendly_name = self.session.recipient])

\* parse_text, arm ".html.body.div.table.tbody.tr.th"
MsgPlus_parse_text_th(self, data, msg) ==
    IF matches(data, self.session.owner)
    THEN Result(FALSE, self,
                [msg EXCEPT !.sender_friendly_name = self.session.owner,
                            !.receiver_friendly_name = self.session.recipient])
    ELSE Result(FALSE, self,
                [msg EXCEPT !.sender_friendly_name = self.session.recipient,
                            !.receiver_friendly_name = self.session.owner])

\* parse_text, arm ".html.body.div.table.tbody.tr.td"
MsgPlus_parse_text_td(self, data, msg) ==
    IF msg.data # <<>> /\ msg.data[1].kind = "System"
    THEN Result(FALSE, self,
                [msg EXCEPT !.data = swap_remove0(Append(@, System(data)))])
    ELSE Result(FALSE, self,
                [msg EXCEPT !.data =
                    Append(@, Text(IF self.parents[2].style = NoAttr
                                   THEN self.session.message_style
                                   ELSE trim(self.parents[2].style),
                                   data))])

\* MessengerPlusParser::parse_text
MsgPlus_parse_text(self, data, msg) ==
    CASE self.parents[1] = <<"html", "body", "div", "ul", "li">> ->
            MsgPlus_parse_text_li(self, data, msg)
      [] self.parents[1] = RowPath \o <<"th", "span">> ->
            MsgPlus_parse_text_span(self, data, msg)
      [] self.parents[1] = RowPath \o <<"th">> ->
            MsgPlus_parse_text_th(self, data, msg)
      [] self.parents[1] = RowPath \o <<"td">> ->
            MsgPlus_parse_text_td(self, data, msg)
      [] OTHER -> Result(FALSE, self, msg)

\* what one iteration of the loop of next() leaves: the fields, the message
\* and whether the loop goes on ("continue") or next() returns
\* ("record": Some(Ok(message)), "err": Some(Err(..)), "none": None)
Step(self, msg, out) == [self |-> self, message |-> msg, out |-> out]

\* next(), arm Ok(XmlEvent::StartElement { name, attributes, .. })
MsgPlus_next_StartElement(self, msg, ev) ==
    LET res == MsgPlus_parse_node(self, ev.name, ev.attributes, msg, ev.fileOk)
    IN  IF res.err
        THEN Step(res.self, res.message, "err")
        ELSE Step([res.self EXCEPT !.parents =
                      <<@[1] \o Segments(ev.name), ev.attributes>>],
                  res.message, "continue")

\* next(), arm Ok(XmlEvent::Characters(data))
MsgPlus_next_Characters(self, msg, ev) ==
    LET res == MsgPlus_parse_text(self, ev.data, msg)
    IN  Step(res.self, res.message, IF res.err THEN "err" ELSE "continue")

\* next(), arm Ok(XmlEvent::EndElement { name })
MsgPlus_next_EndElement(self, msg, ev) ==
    LET new_selector ==
            IF self.parents[1] = <<>> THEN <<>>
            ELSE SubSeq(self.parents[1], 1, Len(self.parents[1]) - 1)
    IN  Step([self EXCEPT !.parents[1] = new_selector], msg,
             IF ev.name = "tr" /\ ends_with(new_selector, RowParent)
             THEN "record" ELSE "continue")

\* an end-of-document arm that hands out the record under construction
\* instead of "no more records"
MsgPlus_next_EndDocument_flush(self, msg) ==
    Step([self EXCEPT !.details.last_session_id = self.session.id], msg, "record")

\* next(), arm Ok(XmlEvent::EndDocument)
MsgPlus_next_EndDocument(self, msg) ==
    Step([self EXCEPT !.details.last_session_id = self.session.id], msg, "none")

\* next(), arm Err(e)
MsgPlus_next_Err(self, msg) == Step(self, msg, "err")

\* a details() that tests first_session_id, which a session marker sets,
\* instead of last_session_id, which only the end of the document sets
MsgPlus_details_first(self) ==
    IF self.details.first_session_id = <<>> THEN None ELSE Some(self.details)

\* MessengerArchive::details for MessengerPlusParser
MsgPlus_details(self) ==
    IF self.details.last_session_id = <<>> THEN None ELSE Some(self.details)


----------------------------------------------------------------------------
(* Format B: XmlParser                                                     *)

\* the attribute list of a Format B element without attributes
NoAttrsB ==
    [ FirstSessionID |-> NoAttr, LastSessionID |-> NoAttr, SessionID |-> NoAttr,
      DateTime |-> NoAttr, Time |-> NoAttr, FriendlyName |-> NoAttr,
      Style |-> NoAttr ]

\* attributes.get(key).unwrap_or(default)
unwrap_or(value, default) == IF value = NoAttr THEN default ELSE value

\* seconds since midnight of an "%H:%M:%S" token
ClockSecs ==
    ("19:40:41" :> 70841) @@ ("21:40:41" :> 78041) @@
    ("23:40:41" :> 85241) @@ ("01:40:41" :> 6041)

\* XmlParser::new
Xml_new ==
    [ details |-> [ recipient_id |-> <<"alice1234">>,
                    file_type |-> "XML",
                    first_session_id |-> <<>>,
                    last_session_id |-> <<>> ],
      parents |-> <<>>,
      done |-> FALSE ]

\* NaiveTime::parse_and_remainder(datetime, "%Y-%m-%dT%H:%M:%S")
parse_and_remainder(datetime) ==
    IF /\ Len(datetime) >= 3
       /\ datetime[2] = "T"
       /\ datetime[3] \in DOMAIN ClockSecs
    THEN [ok |-> TRUE, val |-> ClockSecs[datetime[3]]]
    ELSE [ok |-> FALSE]

\* NaiveTime::from_str(time)
NaiveTime_from_str(time) ==
    IF Len(time) = 1 /\ time[1] \in DOMAIN ClockSecs
    THEN [ok |-> TRUE, val |-> ClockSecs[time[1]]]
    ELSE [ok |-> FALSE]

\* Duration::num_minutes of a difference in seconds: whole minutes, towards zero
num_minutes(secs) ==
    IF secs >= 0 THEN secs \div 60 ELSE 0 - ((0 - secs) \div 60)

\* XmlParser::handle_message_datetime
Xml_handle_message_datetime(msg, attributes) ==
    LET m1 == [msg EXCEPT !.datetime = unwrap_or(attributes.DateTime, <<>>)]
        utc_time == parse_and_remainder(m1.datetime)
        local_time == NaiveTime_from_str(unwrap_or(attributes.Time, <<>>))
    IN  IF utc_time.ok /\ local_time.ok
        THEN [m1 EXCEPT !.timezone_offset =
                            Some(num_minutes(local_time.val - utc_time.val))]
        ELSE m1

\* self.parents.contains(name)
contains(parents, name) == \E i \in 1..Len(parents) : parents[i] = name

\* a "Log" arm that leaves an absent attribute as the empty string
Xml_parse_node_Log_empty(self, msg, attributes) ==
    Result(FALSE,
           [self EXCEPT
               !.details.first_session_id = unwrap_or(attributes.FirstSessionID, <<>>),
               !.details.last_session_id = unwrap_or(attributes.LastSessionID, <<>>)],
           msg)

\* parse_node, arm "Log"
Xml_parse_node_Log(self, msg, attributes) ==
    Result(FALSE,
           [self EXCEPT
               !.details.first_session_id =
                   unwrap_or(attributes.FirstSessionID, <<"0">>),
               !.details.last_session_id =
                   unwrap_or(attributes.LastSessionID, <<"0">>)],
           msg)

\* XmlParser::parse_node
Xml_parse_node(self, name, msg, attributes) ==
    CASE name = "Log" -> Xml_parse_node_Log(self, msg, attributes)
      [] name = "Message" ->
            Result(FALSE, self,
                   Xml_handle_message_datetime(
                       [msg EXCEPT !.session_id =
                                       unwrap_or(attributes.SessionID, <<"0">>)],
                       attributes))
      [] name = "User" ->
            Result(FALSE, self,
                   IF contains(self.parents, "From")
                   THEN [msg EXCEPT !.sender_friendly_name =
                                        unwrap_or(attributes.FriendlyName, <<>>)]
                   ELSE IF contains(self.parents, "To")
                   THEN [msg EXCEPT !.receiver_friendly_name =
                                        unwrap_or(attributes.FriendlyName, <<>>)]
                   ELSE msg)
      [] name = "Text" ->
            Result(FALSE, self,
                   [msg EXCEPT !.data =
                       Append(@, Text(unwrap_or(attributes.Style, <<>>), <<>>))])
      [] OTHER -> Result(FALSE, self, msg)

\* next(), arm Ok(XmlEvent::StartElement { name, attributes, .. })
Xml_next_StartElement(self, msg, ev) ==
    LET res == Xml_parse_node(self, ev.name, msg, ev.attributes)
    IN  Step([res.self EXCEPT !.parents = Append(@, ev.name)],
             res.message, "continue")

\* next(), arm Ok(XmlEvent::Characters(data)); `?` on an empty payload
\* list returns None from next()
Xml_next_Characters(self, msg, ev) ==
    IF ends_with(self.parents, <<"Message", "Text">>)
    THEN IF msg.data = <<>>
         THEN Step(self, msg, "none")
         ELSE IF msg.data[Len(msg.data)].kind = "Text"
              THEN Step(self,
                        [msg EXCEPT !.data[Len(msg.data)].content = ev.data],
                        "continue")
              ELSE Step(self, msg, "continue")
    ELSE Step(self, msg, "continue")

\* next(), arm Ok(XmlEvent::EndElement { name })
Xml_next_EndElement(self, msg, ev) ==
    Step([self EXCEPT !.parents =
             IF @ = <<>> THEN <<>> ELSE SubSeq(@, 1, Len(@) - 1)],
         msg,
         IF ev.name = "Message" THEN "record" ELSE "continue")

\* next(), arm Ok(XmlEvent::EndDocument)
Xml_next_EndDocument(self, msg) ==
    Step([self EXCEPT !.done = TRUE], msg, "none")

\* next(), arm Err(e)
Xml_next_Err(self, msg) == Step(self, msg, "err")

\* MessengerArchive::details for XmlParser
Xml_details(self) ==
    IF self.done THEN Some(self.details) ELSE None


----------------------------------------------------------------------------
(* The event source: self.reader.next()                                    *)
(* The reader delivers StartDocument, then the events of one root element  *)
(* in document order, then EndDocument; it may fail at any point with a    *)
(* malformed-markup error. Once it has delivered EndDocument or an error   *)
(* it delivers that same result on every later call.                       *)

Event(type, name, attributes, data, fileOk) ==
    [type |-> type, name |-> name, attributes |-> attributes,
     data |-> data, fileOk |-> fileOk]

\* the innermost open element of the document ("" outside the root)
Top(r) == IF r.open = <<>> THEN "" ELSE r.open[Len(r.open)]

\* class and id of the div elements the input may hold under body
DivAttrs ==
    { <<"", NoAttr>>, <<"mplsession", NoAttr>>, <<"mplsession", Session1>>,
      <<"mplsession", Session2>>, <<"mplsession", JunkId>> }

\* character data of the Format A input
LiData == { <<"a">>, <<"b", " ">> }
ThData == { <<"a">>, <<"a", "b">>, <<"c">> }
TdData == { <<" ", "x">> }

\* The archives of Format A are explored in three classes, by what their
\* rows hold:
\*   "sessions": any session markers; rows with a header time at most;
\*               an element whose name holds a dot
\*   "names":    participant lists; rows with header text and header times
\*   "cells":    rows (dialogue or status) with cells, cell styles and images
\* every class has the whole skeleton html > body > div > table > tbody > tr
ElementsOf(kind) ==
    CASE kind = "sessions" -> {"html", "body", "div", "table", "tbody", "tr", "th", "span",
                               "v.x"}
      [] kind = "names" -> {"html", "body", "div", "ul", "li", "table", "tbody", "tr", "th", "span"}
      [] kind = "cells" -> {"html", "body", "div", "table", "tbody", "tr", "td", "img", "span"}
      [] OTHER -> {}

InClass(kind, ev) ==
    /\ ev.name \in ElementsOf(kind)
    /\ kind = "sessions" => ev.attributes.class \in {"", "mplsession"}
    /\ kind # "sessions" /\ ev.name = "div" => ev.attributes.id \in {NoAttr, Session1}

\* the elements whose character data the archives of a class hold
TextOf(kind) ==
    CASE kind = "sessions" -> {"span"}
      [] kind = "names" -> {"li", "th", "span"}
      [] kind = "cells" -> {"td"}
      [] OTHER -> {}

\* Format A: the elements that may open next; room: the record being
\* assembled holds fewer than MaxData payload entries
StartsA(r, room) ==
    LET top == Top(r)
        el(name, attrs) == Event("start", name, attrs, <<>>, TRUE)
        all ==
        (IF r.phase = "prolog" THEN {el("html", NoAttrsA)} ELSE {})
        \cup (IF top = "html" THEN {el("body", NoAttrsA)} ELSE {})
        \cup (IF top = "html" /\ r.dots < MaxDotted THEN {el("v.x", NoAttrsA)} ELSE {})
        \cup (IF top = "body" /\ r.divs < MaxSessions
              THEN {el("div", [NoAttrsA EXCEPT !.class = a[1], !.id = a[2]]) :
                       a \in DivAttrs}
              ELSE {})
        \cup (IF r.open = <<"html", "body", "div">>
              THEN {el("ul", NoAttrsA), el("table", NoAttrsA)} ELSE {})
        \cup (IF top = "ul"
              THEN {el("li", [NoAttrsA EXCEPT !.class = c]) : c \in {"", "in"}}
              ELSE {})
        \cup (IF top = "table" THEN {el("tbody", NoAttrsA)} ELSE {})
        \cup (IF top = "table" /\ r.rows < MaxRows
              THEN {el("tr", NoAttrsA)} ELSE {})
        \cup (IF top = "tbody" /\ r.rows < MaxRows
              THEN {el("tr", [NoAttrsA EXCEPT !.class = c]) : c \in {"", "msgplus"}}
              ELSE {})
        \cup (IF r.open = RowPath
              THEN {el("th", NoAttrsA)}
                   \cup {el("td", [NoAttrsA EXCEPT !.style = st]) :
                            st \in {NoAttr, StyleAttr}}
              ELSE {})
        \cup (IF top = "th" THEN {el("span", NoAttrsA)} ELSE {})
        \cup (IF top = "td"
              THEN {el("span", NoAttrsA),
                    el("span", [NoAttrsA EXCEPT !.style = <<"bold">>])}
              ELSE {})
        \cup (IF top = "td" /\ room
              THEN {el("img", NoAttrsA)}
                   \cup {Event("start", "img",
                               [NoAttrsA EXCEPT !.src = <<"p.png">>,
                                                !.alt = <<":)", " ">>],
                               <<>>, ok) : ok \in BOOLEAN}
              ELSE {})
    IN  {ev \in all : InClass(r.kind, ev)}

\* Format A: the character data that may come next
CharsA(r, room) ==
    LET top == Top(r)
        ch(S) == {Event("chars", "", NoAttrsA, d, TRUE) : d \in S}
    IN  CASE top \notin TextOf(r.kind) -> {}
          [] top = "li"   -> ch(LiData)
          [] top = "span" -> ch({Time1, JunkTime})
          [] top = "th"   -> ch(ThData)
          [] top = "td"   -> IF room THEN ch(TdData) ELSE {}
          [] OTHER        -> {}

\* SessionID, DateTime and Time of the Message elements the input may hold
MessageAttrs ==
    { <<NoAttr, NoAttr, NoAttr>>,
      <<<<"1">>, <<"2009-04-06", "T", "19:40:41", ".851Z">>, <<"21:40:41">>>>,
      <<<<"1">>, <<"2009-04-06", "T", "19:40:41", ".851Z">>, NoAttr>>,
      <<<<"1">>, <<"yesterday">>, <<"21:40:41">>>>,
      <<<<"1">>, <<"2009-04-06", "T", "23:40:41", ".851Z">>, <<"01:40:41">>>> }

\* Format B: the elements that may open next
StartsB(r, room) ==
    LET top == Top(r)
        el(name, attrs) == Event("start", name, attrs, <<>>, TRUE)
        text == {el("Text", [NoAttrsB EXCEPT !.Style = st]) :
                    st \in {NoAttr, <<"color:#004000;">>}}
    IN  (IF r.phase = "prolog"
         THEN {el("Log", NoAttrsB),
               el("Log", [NoAttrsB EXCEPT !.FirstSessionID = <<"1">>,
                                          !.LastSessionID = <<"2">>])}
         ELSE {})
        \cup (IF top \in {"Log", "Text"} /\ r.rows < MaxRows
                 /\ (r.kind = "cdata" => top = "Log")
              THEN {el("Message", [NoAttrsB EXCEPT !.SessionID = a[1],
                                                   !.DateTime = a[2],
                                                   !.Time = a[3]]) :
                       a \in IF r.kind = "cdata"
                             THEN {<<NoAttr, NoAttr, NoAttr>>}
                             ELSE MessageAttrs}
              ELSE {})
        \cup (IF top \in {"Log", "Message"} /\ room
                 /\ (r.kind = "cdata" => top = "Message")
              THEN text ELSE {})
        \cup (IF top = "Message" /\ r.kind # "cdata"
              THEN {el("From", NoAttrsB), el("To", NoAttrsB)} ELSE {})
        \cup (IF top \in {"From", "To"}
              THEN {el("User", [NoAttrsB EXCEPT !.FriendlyName = n]) :
                       n \in {NoAttr, <<"a">>}}
              ELSE {})

\* Format B: the character data that may come next
\* (the reader hands over the character data of an element in one event,
\* or in several when a CDATA section stands between the pieces)
CharsB(r) ==
    IF Top(r) = "Text" /\ r.last \in {"tag", "cdata"}
    THEN {Event("chars", "", NoAttrsB,
                IF r.last = "tag" THEN <<"x">> ELSE <<"y">>, TRUE)}
    ELSE {}

\* Format B: the events next() has no arm for that may come next:
\* StartDocument, and a CDATA section between two pieces of character data
OthersB(r) ==
    (IF r.phase = "new"
     THEN {Event("other", "", NoAttrsB, <<>>, TRUE)} ELSE {})
    \cup (IF r.kind = "cdata" /\ Top(r) = "Text" /\ r.last = "chars"
             /\ r.cdata < MaxCData
          THEN {Event("cdata", "", NoAttrsB, <<>>, TRUE)} ELSE {})

\* the element that closes next, if one is open
Ends(r) ==
    IF r.open = <<>> THEN {}
    ELSE {Event("end", Top(r), NoAttrsA, <<>>, TRUE)}

\* the reader after it has delivered ev
ReaderAfter(r, ev) ==
    CASE ev.type = "start" ->
            [r EXCEPT !.phase = "root",
                      !.open = Append(@, ev.name),
                      !.rows = IF ev.name \in {"tr", "Message"} THEN @ + 1 ELSE @,
                      !.divs = IF ev.name = "div" THEN @ + 1 ELSE @,
                      !.dots = IF ev.name = "v.x" THEN @ + 1 ELSE @,
                      !.last = "tag"]
      [] ev.type = "end" ->
            [r EXCEPT !.open = SubSeq(@, 1, Len(@) - 1),
                      !.phase = IF Len(r.open) = 1 THEN "epilog" ELSE "root",
                      !.last = "tag"]
      [] ev.type = "chars" /\ r.kind \in {"xml", "cdata"} ->
            [r EXCEPT !.last = "chars"]
      [] ev.type = "cdata" -> [r EXCEPT !.last = "cdata", !.cdata = @ + 1]
      [] ev.type = "eod" -> [r EXCEPT !.phase = "eod"]
      [] ev.type = "err" -> [r EXCEPT !.phase = "err"]
      [] ev.type = "other" -> [r EXCEPT !.phase = "prolog"]
      [] OTHER -> r

\* common::get_parser(path): a reader that has delivered nothing yet, on an
\* archive of the given class
get_parser(kind) ==
    [kind |-> kind, phase |-> "new", open |-> <<>>, rows |-> 0, divs |-> 0,
     dots |-> 0, last |-> "tag", cdata |-> 0]

\* the dialect and the class of the archives explored
Archives ==
    { <<"A", "sessions">>, <<"A", "names">>, <<"A", "cells">>, <<"B", "xml">>,
      <<"B", "cdata">> }

----------------------------------------------------------------------------
(* History of the run, kept for stating the properties                     *)

NoHeader == <<"#none">>

ObsInit ==
    [ errored |-> FALSE,        \* a pull has returned an error
      nones |-> 0,              \* pulls that returned "no more records" (0, 1, many)
      records |-> 0,            \* records returned before the first "no more records"
      boundary |-> 0,           \* boundary elements the input has opened
      marker |-> <<>>,          \* identifier of the latest session marker
      first_marker |-> <<>>,    \* identifier of the first session marker
      row_marker |-> <<>>,      \* `marker` when the current row opened
      row_header |-> NoHeader,  \* latest header-cell text of the current row
      row_times |-> 0,          \* well-formed header times of the current row (0, 1, many)
      row_system |-> FALSE,     \* the current row is flagged class="msgplus"
      row_text |-> NoHeader,    \* latest character data of a cell of the current row
      row_texts |-> 0,          \* character data events in cells of the current row (0, 1, many)
      msgs |-> <<>>,            \* attributes of the open Message elements, outermost first
      closed |-> NoAttrsB,      \* attributes of the Message element closed last
      log |-> NoAttrsB,         \* attributes of the Log element
      cell |-> NoAttr,          \* style attribute of the cell opened last
      texts |-> <<>>,           \* per open Message: Style of the Text elements under it
      closed_texts |-> <<>>,    \* `texts` of the Message element closed last
      chars |-> <<>>,           \* per open Message: character data of the Text elements under it
      closed_chars |-> <<>> ]   \* `chars` of the Message element closed last

\* the input's own view of the event it delivers (its true open elements);
\* what is kept of the Message element closed last is dropped at the next
\* event
ObsEvent(o0, f, r, ev) ==
    LET o == [o0 EXCEPT !.closed = NoAttrsB, !.closed_texts = <<>>,
                        !.closed_chars = <<>>] IN
    IF f = "A" /\ ev.type = "start" /\ ev.name = "div"
       /\ r.open = <<"html", "body">>
       /\ ev.attributes.class = "mplsession" /\ ev.attributes.id # NoAttr
    THEN [o EXCEPT !.marker = ev.attributes.id,
                   !.first_marker = IF @ = <<>> THEN ev.attributes.id ELSE @]
    ELSE IF f = "A" /\ ev.type = "start" /\ ev.name = "tr" /\ r.open = RowParent
    THEN [o EXCEPT !.boundary = @ + 1,
                   !.row_marker = o.marker,
                   !.row_header = NoHeader,
                   !.row_times = 0,
                   !.row_system = (ev.attributes.class = "msgplus"),
                   !.row_text = NoHeader,
                   !.row_texts = 0]
    ELSE IF f = "A" /\ ev.type = "chars" /\ r.open = RowPath \o <<"th">>
    THEN [o EXCEPT !.row_header = ev.data]
    ELSE IF f = "A" /\ ev.type = "chars" /\ r.open = RowPath \o <<"th", "span">>
    THEN [o EXCEPT !.row_times = IF ev.data # Time1 THEN @
                                  ELSE IF @ = 0 THEN 1 ELSE 2]
    ELSE IF f = "A" /\ ev.type = "start" /\ ev.name = "td" /\ r.open = RowPath
    THEN [o EXCEPT !.cell = ev.attributes.style]
    ELSE IF f = "A" /\ ev.type = "chars" /\ r.open = RowPath \o <<"td">>
    THEN [o EXCEPT !.row_text = ev.data,
                   !.row_texts = IF @ = 0 THEN 1 ELSE 2]
    ELSE IF f = "B" /\ ev.type = "start" /\ ev.name = "Log"
    THEN [o EXCEPT !.log = ev.attributes]
    ELSE IF f = "B" /\ ev.type = "start" /\ ev.name = "Message"
    THEN [o EXCEPT !.boundary = @ + 1,
                   !.msgs = Append(@, ev.attributes),
                   !.texts = Append(@, <<>>),
                   !.chars = Append(@, <<>>)]
    ELSE IF f = "B" /\ ev.type = "end" /\ ev.name = "Message"
    THEN [o EXCEPT !.msgs = SubSeq(@, 1, Len(@) - 1),
                   !.closed = o.msgs[Len(o.msgs)],
                   !.texts = SubSeq(@, 1, Len(@) - 1),
                   !.closed_texts = o.texts[Len(o.texts)],
                   !.chars = SubSeq(@, 1, Len(@) - 1),
                   !.closed_chars = o.chars[Len(o.chars)]]
    ELSE IF f = "B" /\ ev.type = "start" /\ ev.name = "Text" /\ o.texts # <<>>
    THEN [o EXCEPT !.texts[Len(o.texts)] = Append(@, ev.attributes.Style),
                   !.chars[Len(o.chars)] = Append(@, <<>>)]
    ELSE IF f = "B" /\ ev.type = "chars"
            /\ ends_with(r.open, <<"Message", "Text">>)
            /\ o.chars # <<>> /\ o.chars[Len(o.chars)] # <<>>
    THEN [o EXCEPT !.chars[Len(o.chars)][Len(o.chars[Len(o.chars)])] =
                       @ \o ev.data]
    ELSE o

\* ... and of what the pull returned, if this event ended it
ObsReturn(o, out) ==
    CASE out = "err"    -> [o EXCEPT !.errored = TRUE]
      [] out = "none"   -> [o EXCEPT !.nones = IF @ = 0 THEN 1 ELSE 2]
      [] out = "record" -> [o EXCEPT !.records = IF o.nones > 0 THEN @ ELSE @ + 1]
      [] OTHER          -> o

----------------------------------------------------------------------------
(* The parser's caller and the loop of next()                              *)

Returned(out, msg) ==
    [kind |-> out, message |-> IF out = "record" THEN msg ELSE DefaultMessage]

Init ==
    /\ \E a \in Archives : fmt = a[1] /\ reader = get_parser(a[2])
    /\ plus = MsgPlus_new
    /\ xml = Xml_new
    /\ message = DefaultMessage
    /\ pc = "idle"
    /\ ret = Returned("new", DefaultMessage)
    /\ obs = ObsInit
    /\ plus2 = MsgPlus_new
    /\ message2 = DefaultMessage
    /\ ret2 = Returned("new", DefaultMessage)

\* the caller calls next(): let mut message = Message::default()
Pull ==
    /\ pc = "idle"
    /\ pc' = "loop"
    /\ message' = DefaultMessage
    /\ ret' = Returned("running", DefaultMessage)
    /\ UNCHANGED <<fmt, reader, plus, xml, obs, plus2, message2, ret2>>

\* the end of one iteration: the loop goes on, or next() returns
Iterate(st, ev) ==
    /\ message' = (IF st.out = "continue" THEN st.message ELSE DefaultMessage)
    /\ pc' = (IF st.out = "continue" THEN "loop" ELSE "idle")
    /\ ret' = (IF st.out = "continue" THEN ret ELSE Returned(st.out, st.message))
    /\ reader' = ReaderAfter(reader, ev)
    /\ obs' = ObsReturn(ObsEvent(obs, fmt, reader, ev), st.out)

Room == Len(message.data) < MaxData

Live == reader.phase \notin {"eod", "err"}

A_StartElement ==
    /\ fmt = "A" /\ pc = "loop" /\ Live
    /\ \E ev \in StartsA(reader, Room) :
          LET st == MsgPlus_next_StartElement(plus, message, ev)
          IN  plus' = st.self /\ Iterate(st, ev)
    /\ UNCHANGED <<fmt, xml, plus2, message2, ret2>>

A_Characters ==
    /\ fmt = "A" /\ pc = "loop" /\ Live
    /\ \E ev \in CharsA(reader, Room) :
          LET st == MsgPlus_next_Characters(plus, message, ev)
          IN  plus' = st.self /\ Iterate(st, ev)
    /\ UNCHANGED <<fmt, xml, plus2, message2, ret2>>

A_EndElement ==
    /\ fmt = "A" /\ pc = "loop" /\ Live
    /\ \E ev \in Ends(reader) :
          LET st == MsgPlus_next_EndElement(plus, message, ev)
          IN  plus' = st.self /\ Iterate(st, ev)
    /\ UNCHANGED <<fmt, xml, plus2, message2, ret2>>

A_EndDocument ==
    /\ fmt = "A" /\ pc = "loop"
    /\ reader.phase \in {"epilog", "eod"}
    /\ LET st == MsgPlus_next_EndDocument(plus, message)
       IN  plus' = st.self /\ Iterate(st, Event("eod", "", NoAttrsA, <<>>, TRUE))
    /\ UNCHANGED <<fmt, xml, plus2, message2, ret2>>

A_Err ==
    /\ fmt = "A" /\ pc = "loop"
    /\ reader.phase # "eod"
    /\ LET st == MsgPlus_next_Err(plus, message)
       IN  plus' = st.self /\ Iterate(st, Event("err", "", NoAttrsA, <<>>, TRUE))
    /\ UNCHANGED <<fmt, xml, plus2, message2, ret2>>

\* next(), arm `_ => {}`: StartDocument
A_Other ==
    /\ fmt = "A" /\ pc = "loop"
    /\ reader.phase = "new"
    /\ Iterate(Step(plus, message, "continue"),
               Event("other", "", NoAttrsA, <<>>, TRUE))
    /\ UNCHANGED <<fmt, plus, xml, plus2, message2, ret2>>

B_StartElement ==
    /\ fmt = "B" /\ pc = "loop" /\ Live
    /\ \E ev \in StartsB(reader, Room) :
          LET st == Xml_next_StartElement(xml, message, ev)
          IN  xml' = st.self /\ Iterate(st, ev)
    /\ UNCHANGED <<fmt, plus, plus2, message2, ret2>>

B_Characters ==
    /\ fmt = "B" /\ pc = "loop" /\ Live
    /\ \E ev \in CharsB(reader) :
          LET st == Xml_next_Characters(xml, message, ev)
          IN  xml' = st.self /\ Iterate(st, ev)
    /\ UNCHANGED <<fmt, plus, plus2, message2, ret2>>

B_EndElement ==
    /\ fmt = "B" /\ pc = "loop" /\ Live
    /\ \E ev \in Ends(reader) :
          LET st == Xml_next_EndElement(xml, message, ev)
          IN  xml' = st.self /\ Iterate(st, ev)
    /\ UNCHANGED <<fmt, plus, plus2, message2, ret2>>

B_EndDocument ==
    /\ fmt = "B" /\ pc = "loop"
    /\ reader.phase \in {"epilog", "eod"}
    /\ LET st == Xml_next_EndDocument(xml, message)
       IN  xml' = st.self /\ Iterate(st, Event("eod", "", NoAttrsB, <<>>, TRUE))
    /\ UNCHANGED <<fmt, plus, plus2, message2, ret2>>

B_Err ==
    /\ fmt = "B" /\ pc = "loop"
    /\ reader.phase # "eod"
    /\ LET st == Xml_next_Err(xml, message)
       IN  xml' = st.self /\ Iterate(st, Event("err", "", NoAttrsB, <<>>, TRUE))
    /\ UNCHANGED <<fmt, plus, plus2, message2, ret2>>

\* next(), arm `_ => {}`: StartDocument, CData
B_Other ==
    /\ fmt = "B" /\ pc = "loop"
    /\ \E ev \in OthersB(reader) :
          Iterate(Step(xml, message, "continue"), ev)
    /\ UNCHANGED <<fmt, plus, xml, plus2, message2, ret2>>

----------------------------------------------------------------------------
(* Two parses side by side: the same Format A archive read by `plus`, and  *)
(* read by `plus2` with the class="in" flag moved to the other list items  *)

\* the event of the second archive that stands where ev stands in the first
SwapFlag(ev) ==
    IF ev.type = "start" /\ ev.name = "li"
    THEN [ev EXCEPT !.attributes.class = IF @ = "in" THEN "" ELSE "in"]
    ELSE ev

InitSwap ==
    /\ fmt = "A"
    /\ reader = get_parser("names")
    /\ plus = MsgPlus_new
    /\ xml = Xml_new
    /\ message = DefaultMessage
    /\ pc = "idle"
    /\ ret = Returned("new", DefaultMessage)
    /\ obs = ObsInit
    /\ plus2 = MsgPlus_new
    /\ message2 = DefaultMessage
    /\ ret2 = Returned("new", DefaultMessage)

\* both callers call next()
SwapPull ==
    /\ pc = "idle"
    /\ pc' = "loop"
    /\ message' = DefaultMessage
    /\ message2' = DefaultMessage
    /\ ret' = Returned("running", DefaultMessage)
    /\ ret2' = Returned("running", DefaultMessage)
    /\ UNCHANGED <<fmt, reader, plus, xml, obs, plus2>>

\* one iteration of both loops; "apart" records that one call returned
\* while the other went on
SwapIterate(st, st2, ev) ==
    /\ plus' = st.self
    /\ plus2' = st2.self
    /\ Iterate(st, ev)
    /\ message2' = (IF st2.out = "continue" THEN st2.message ELSE DefaultMessage)
    /\ ret2' = (IF st2.out # st.out THEN Returned("apart", DefaultMessage)
               ELSE IF st2.out = "continue" THEN ret2
               ELSE Returned(st2.out, st2.message))
    /\ UNCHANGED <<fmt, xml>>

SwapStartElement ==
    /\ pc = "loop" /\ Live
    /\ \E ev \in StartsA(reader, Room) :
          SwapIterate(MsgPlus_next_StartElement(plus, message, ev),
                      MsgPlus_next_StartElement(plus2, message2, SwapFlag(ev)), ev)

SwapCharacters ==
    /\ pc = "loop" /\ Live
    /\ \E ev \in CharsA(reader, Room) :
          SwapIterate(MsgPlus_next_Characters(plus, message, ev),
                      MsgPlus_next_Characters(plus2, message2, ev), ev)

SwapEndElement ==
    /\ pc = "loop" /\ Live
    /\ \E ev \in Ends(reader) :
          SwapIterate(MsgPlus_next_EndElement(plus, message, ev),
                      MsgPlus_next_EndElement(plus2, message2, ev), ev)

SwapEndDocument ==
    /\ pc = "loop"
    /\ reader.phase \in {"epilog", "eod"}
    /\ SwapIterate(MsgPlus_next_EndDocument(plus, message),
                   MsgPlus_next_EndDocument(plus2, message2),
                   Event("eod", "", NoAttrsA, <<>>, TRUE))

SwapErr ==
    /\ pc = "loop"
    /\ reader.phase # "eod"
    /\ SwapIterate(MsgPlus_next_Err(plus, message),
                   MsgPlus_next_Err(plus2, message2),
                   Event("err", "", NoAttrsA, <<>>, TRUE))

SwapOther ==
    /\ pc = "loop"
    /\ reader.phase = "new"
    /\ SwapIterate(Step(plus, message, "continue"),
                   Step(plus2, message2, "continue"),
                   Event("other", "", NoAttrsA, <<>>, TRUE))

NextSwap ==
    \/ SwapPull
    \/ SwapStartElement \/ SwapCharacters \/ SwapEndElement
    \/ SwapEndDocument \/ SwapErr \/ SwapOther

SpecSwap == InitSwap /\ [][NextSwap]_vars

----------------------------------------------------------------------------

Next ==
    \/ Pull
    \/ A_StartElement \/ A_Characters \/ A_EndElement
    \/ A_EndDocument \/ A_Err \/ A_Other
    \/ B_StartElement \/ B_Characters \/ B_EndElement
    \/ B_EndDocument \/ B_Err \/ B_Other

Spec == Init /\ [][Next]_vars


----------------------------------------------------------------------------
(* Properties                                                              *)

\* details() of the parser of dialect f
DetailsOf(f, p, x) == IF f = "A" THEN MsgPlus_details(p) ELSE Xml_details(x)
Details == DetailsOf(fmt, plus, xml)

\* the reader has delivered EndDocument to a pull
Exhausted == reader.phase = "eod"

\* C1: for both parsers, as long as the event source has not delivered
\* end-of-document to a pull, details() is None, however many records have
\* been pulled and whatever the Log element or the session markers have
\* written into the details fields.
C1_UnavailableBeforeEnd == ~Exhausted => Details = None

\* C1 witness: Format A, a record has been pulled and a session marker has
\* written first_session_id, the document has not ended
C1_Witness ==
    /\ fmt = "A" /\ ~Exhausted
    /\ ret.kind = "record"
    /\ plus.details.first_session_id # <<>>
    /\ Details = None

\* C2 (as claimed): for both dialects and every well-formed archive, once a
\* pull has returned "no more records" at end-of-document, details() returns
\* the ArchiveDetails.
C2_AvailableAfterEnd ==
    (Exhausted /\ ret.kind = "none" /\ ~obs.errored) => Details # None

\* C3: after a pull has returned "no more records" at end-of-document, no
\* later pull returns a record or an error, the reader stays at the end of
\* the document, and details() keeps returning the same value.
C3_NotRestartable ==
    [][Exhausted =>
          /\ reader'.phase = "eod"
          /\ ret'.kind \in {"running", "none"}
          /\ DetailsOf(fmt', plus', xml') = Details]_vars

\* C3 witness: a second pull has returned "no more records" after the end
\* of the document, with details available
C3_Witness ==
    /\ Exhausted /\ pc = "idle" /\ ret.kind = "none"
    /\ obs.nones = 2 /\ obs.records > 0
    /\ Details # None

\* C4 (as claimed): for every well-formed input, pulling until "no more
\* records" yields as many records as the input has boundary elements (tr
\* under html > body > div > table > tbody, or Message): whenever a pull
\* returns "no more records" in a run without error, the records yielded
\* are as many as the boundary elements read.
C4_OneRecordPerBoundary ==
    (ret.kind = "none" /\ ~obs.errored) => obs.records = obs.boundary

\* C5 (as claimed): Format A: the first record's timestamp has second-level
\* precision, every later record's timestamp has minute-level precision.
\* Stated for the records it can be true of: those whose row holds one
\* well-formed header time, in runs where no pull has returned an error.
C5_FirstRecordHasSeconds ==
    (fmt = "A" /\ ret.kind = "record" /\ obs.row_times = 1 /\ ~obs.errored) =>
        IF obs.records = 1
        THEN Len(ret.message.datetime) = 5
        ELSE Len(ret.message.datetime) = 3

\* C6 (as claimed): Format A: after exhaustion first_session_id is the
\* identifier of the first session marker of the stream and last_session_id
\* that of the last one; once set, first_session_id is never overwritten.
C6_FirstAndLastSession ==
    /\ [](  (fmt = "A" /\ Exhausted) =>
              /\ plus.details.first_session_id = obs.first_marker
              /\ plus.details.last_session_id = obs.marker )
    /\ [][plus.details.first_session_id # <<>> =>
              plus'.details.first_session_id = plus.details.first_session_id]_vars

\* C7 (as claimed): Format A: every yielded record's session_id is the
\* identifier of the latest session marker before the record's row.
C7_RecordSessionId ==
    (fmt = "A" /\ ret.kind = "record") =>
        ret.message.session_id = obs.row_marker

\* C8 (as claimed): Format A: a record whose row has header-cell character
\* data has sender = owner and receiver = counterpart if that text contains
\* the owner name, and sender = counterpart, receiver = owner otherwise.
C8_SenderByHeader ==
    (fmt = "A" /\ ret.kind = "record" /\ obs.row_header # NoHeader) =>
        IF matches(obs.row_header, plus.session.owner)
        THEN /\ ret.message.sender_friendly_name = plus.session.owner
             /\ ret.message.receiver_friendly_name = plus.session.recipient
        ELSE /\ ret.message.sender_friendly_name = plus.session.recipient
             /\ ret.message.receiver_friendly_name = plus.session.owner

\* both participants are listed: an owner name and a counterpart name are set
BothListed == plus.session.owner # <<>> /\ plus.session.recipient # <<>>

\* the record of the second parse has sender and receiver exchanged
Exchanged ==
    /\ ret2.message.sender_friendly_name = ret.message.receiver_friendly_name
    /\ ret2.message.receiver_friendly_name = ret.message.sender_friendly_name

\* the record of the second parse has the same sender and receiver
SameNames ==
    /\ ret2.message.sender_friendly_name = ret.message.sender_friendly_name
    /\ ret2.message.receiver_friendly_name = ret.message.receiver_friendly_name

C10_SystemNoticeAlone ==
    ret.kind = "record" =>
        \A i \in 1..Len(ret.message.data) :
            ret.message.data[i].kind = "System" => Len(ret.message.data) = 1

\* C11 (as claimed): Format A: a row flagged class="msgplus" whose cell
\* holds character data yields a record whose payload is exactly one
\* SystemNotice, its text the trimmed text of the row.  Stated for rows
\* with one character data event, in runs where no pull returned an error.
C11_StatusRowNotice ==
    (fmt = "A" /\ ret.kind = "record" /\ obs.row_system
        /\ obs.row_texts = 1 /\ ~obs.errored) =>
        ret.message.data = <<System(trim(obs.row_text))>>

\* C12 (as claimed): Format B: a record's timezone offset is set if and
\* only if its Message element (the one whose end tag yields the record)
\* has a DateTime attribute that parses and a Time attribute that parses;
\* otherwise the offset is None.
C12_OffsetIffBothParse ==
    (fmt = "B" /\ ret.kind = "record") =>
        ( ret.message.timezone_offset # None
          <=> /\ parse_and_remainder(unwrap_or(obs.closed.DateTime, <<>>)).ok
              /\ NaiveTime_from_str(unwrap_or(obs.closed.Time, <<>>)).ok )

\* C13: Format B: once the reader has delivered end-of-document, details()
\* holds the FirstSessionID and LastSessionID attributes of the Log
\* element, "0" standing for an absent attribute; and an archive without
\* Message elements has yielded no record.
C13_LogSessionIds ==
    (fmt = "B" /\ Exhausted) =>
        /\ Details = Some([xml.details EXCEPT
                !.first_session_id = unwrap_or(obs.log.FirstSessionID, <<"0">>),
                !.last_session_id = unwrap_or(obs.log.LastSessionID, <<"0">>)])
        /\ obs.boundary = 0 => obs.records = 0

\* C13 witness: a Log element without the two attributes and without
\* Message elements, read to the end: no record, both ids "0"
C13_Witness ==
    /\ fmt = "B" /\ Exhausted /\ ret.kind = "none"
    /\ obs.log = NoAttrsB /\ obs.boundary = 0 /\ obs.records = 0
    /\ Details # None
    /\ Details.val.first_session_id = <<"0">>
    /\ Details.val.last_session_id = <<"0">>

\* C14 (as claimed): after a pull has returned a parse error, no later pull
\* on that parser returns a record.
C14_ErrorIsFinal ==
    obs.errored => ret.kind # "record"

\* the dot-joined names of the open elements, cut at the dots
RECURSIVE PathOf(_)
PathOf(open) ==
    IF open = <<>> THEN <<>>
    ELSE PathOf(SubSeq(open, 1, Len(open) - 1)) \o Segments(open[Len(open)])

\* C15 (as claimed): both parsers: after every event and every outcome of
\* a pull the tracked path is the sequence of the names of the elements
\* that are open in the document.
C15_PathIsOpenElements ==
    /\ fmt = "A" => plus.parents[1] = PathOf(reader.open)
    /\ fmt = "B" => xml.parents = reader.open

\* a Text payload has just been appended for character data of the open cell
TextAppended ==
    /\ fmt = "A" /\ pc = "loop"
    /\ reader.open = RowPath \o <<"td">> /\ reader' = reader
    /\ Len(message'.data) = Len(message.data) + 1
    /\ message'.data[Len(message'.data)].kind = "Text"

\* C16 (as claimed): Format A: a Text payload appended for character data
\* under a table cell has the cell's own style attribute (trimmed) when the
\* cell has one, and the session default style otherwise, whatever was
\* opened and closed inside the cell before.
C16_TextStyleOfCell ==
    [][TextAppended =>
          message'.data[Len(message'.data)].style =
              IF obs.cell # NoAttr THEN trim(obs.cell)
              ELSE plus.session.message_style]_vars

\* C17 (as claimed): Format B: the payload of a yielded record holds, in
\* document order, one Text entry per Text element under the record's own
\* Message element (the one whose end tag yields the record), its style
\* the Style attribute or empty; a Text element outside a Message adds no
\* entry to any record.
C17_TextPerTextElement ==
    (fmt = "B" /\ ret.kind = "record") =>
        /\ Len(ret.message.data) = Len(obs.closed_texts)
        /\ \A i \in 1..Len(ret.message.data) :
              /\ ret.message.data[i].kind = "Text"
              /\ ret.message.data[i].style = unwrap_or(obs.closed_texts[i], <<>>)

\* C18 (as claimed): both parsers: a pull returns "no more records" only
\* when the reader has reported end-of-document, never while events remain
\* unread.  (That details() is then available is C2's statement.)
C18_NoneOnlyAtEnd ==
    ret.kind = "none" => Exhausted

\* the zone offsets, in minutes, that shift the clock utc to the clock
\* local (both in seconds since midnight), the day wrapping at midnight
ZoneOffsets(utc, local) ==
    {z \in -720..840 : (utc + 60 * z - local) % 86400 = 0}

\* C19 (as claimed): Format B: when the Time attribute is the DateTime's
\* time of day shifted by a zone offset z, -720 <= z <= 840, wrapping
\* around midnight, the record's timezone offset is z; the computed offset
\* lies in -720..840.
C19_OffsetIsZoneOffset ==
    LET utc_time == parse_and_remainder(unwrap_or(obs.closed.DateTime, <<>>))
        local_time == NaiveTime_from_str(unwrap_or(obs.closed.Time, <<>>))
    IN  (fmt = "B" /\ ret.kind = "record" /\ utc_time.ok /\ local_time.ok) =>
            /\ ret.message.timezone_offset # None
            /\ ret.message.timezone_offset.val \in -720..840
            /\ \A z \in ZoneOffsets(utc_time.val, local_time.val) :
                  ret.message.timezone_offset.val = z

\* the reader has just delivered a session marker whose identifier does
\* not parse as Session_<date>T<time>
BadMarkerRead ==
    /\ fmt = "A" /\ pc = "loop"
    /\ reader.open = <<"html", "body">>
    /\ reader'.open = <<"html", "body", "div">>
    /\ obs'.marker # <<>>
    /\ ~parse_session_date(obs'.marker).ok

\* C20 (as claimed): Format A: at a session marker whose identifier fails
\* to parse the pull returns an error, and the session state and the
\* archive details are as they were before the marker.
C20_BadMarkerChangesNothing ==
    [][BadMarkerRead =>
          /\ ret'.kind = "err"
          /\ plus'.session = plus.session
          /\ plus'.details = plus.details]_vars

\* C21 (as claimed): Format B: the content of each Text payload of a
\* record is the concatenation, in order, of all the character data
\* delivered under Message > Text for its Text element, also when the data
\* came in several events.
C21_NoCharacterDataLost ==
    (fmt = "B" /\ ret.kind = "record"
        /\ Len(ret.message.data) = Len(obs.closed_chars)) =>
       \A i \in 1..Len(ret.message.data) :
          ret.message.data[i].kind = "Text" =>
             ret.message.data[i].content = obs.closed_chars[i]

====
